---- MODULE Spec2Model ----
(***************************************************************************)
(* Model of the multi-provider timezone resolver of src/geoip-services.js: *)
(* getTimezoneByConsensus (with its helper generator raceWithTimeout),     *)
(* getTimezoneFirst and fetchFromService, and of the /timezone handler of  *)
(* src/index.js that calls them.                                           *)
(*                                                                         *)
(* One behaviour is one resolution call.  A step is one macrotask of the   *)
(* JavaScript event loop (a provider's response arriving, a per-provider   *)
(* abort timer firing, the total-timeout timer firing) together with the   *)
(* whole chain of promise reactions (microtasks) it triggers.              *)
(***************************************************************************)
EXTENDS Integers, Sequences, FiniteSets, TLC

\* The registry: names of the provider descriptors, in registration order.
GEOIP_SERVICES ==
    << "ipapi.co", "ipwho.is", "ip-api.com", "reallyfreegeoip.org", "freeipapi.com" >>

\* The registry a process runs with (never mutated after start-up).
VARIABLE services

\* GEOIP_SERVICES.length
N == Len(services)

\* Registries of other sizes, to examine the threshold Math.ceil(length / 2)
\* for an even length: the registry with its last descriptor left out.
Registries ==
    { GEOIP_SERVICES, SubSeq(GEOIP_SERVICES, 1, Len(GEOIP_SERVICES) - 1) }

Services == 1..N

\* Timezone identifiers the providers may report: the first MaxTimezones
\* of TimezoneNames.
TimezoneNames == << "Europe/London", "Europe/Paris", "Asia/Tokyo", "Asia/Seoul" >>

MaxTimezones == 2

Timezones == { TimezoneNames[k] : k \in 1..MaxTimezones }

\* Defaults of getTimezoneByConsensus / getTimezoneFirst, in milliseconds.
DefaultTimeout == 5000

DefaultTotalTimeout == 8000

\* A caller-chosen total timeout that is shorter than the per-provider one.
ShortTotalTimeout == 3000

\* The option records a consensus call is started with.
ConsensusOptions ==
    { [timeout |-> DefaultTimeout, totalTimeout |-> DefaultTotalTimeout],
      [timeout |-> DefaultTimeout, totalTimeout |-> ShortTotalTimeout] }

\* getTimezoneFirst has a per-provider timeout only (totalTimeout 0: unused).
FirstOptions == { [timeout |-> DefaultTimeout, totalTimeout |-> 0] }

Modes == { "consensus", "first" }

\* JavaScript null (the Absent outcome, and "no value yet").
null == [isNull |-> TRUE]

\* What the network hands to one fetchFromService call.
Responses ==
    { [kind |-> "network_error", timezone |-> ""],
      [kind |-> "http_error", timezone |-> ""],
      [kind |-> "bad_json", timezone |-> ""] }
    \cup { [kind |-> "ok", timezone |-> tz] : tz \in Timezones \cup {""} }

\* fetchFromService: the value its promise fulfils with for a response.
\* Any throw inside the try block is caught and turned into null.
fetchFromServiceKeepsEmpty(i, response) ==
    IF response.kind # "ok" THEN null
    ELSE [timezone |-> response.timezone, geo |-> i, service |-> services[i]]

fetchFromService(i, response) ==
    IF response.kind # "ok" THEN null
    ELSE IF response.timezone = "" THEN null
    ELSE [timezone |-> response.timezone, geo |-> i, service |-> services[i]]

\* const majority = Math.ceil(GEOIP_SERVICES.length / 2)
majority == (N + 1) \div 2

----
\* The Map tallyMap, as its entries in insertion order.

MapHas(m, k) == \E e \in 1..Len(m) : m[e].key = k

\* tallyMap.get(k) || 0
MapGetDefaultOne(m, k) ==
    IF MapHas(m, k) THEN m[CHOOSE e \in 1..Len(m) : m[e].key = k].value ELSE 1

MapGet(m, k) ==
    IF MapHas(m, k) THEN m[CHOOSE e \in 1..Len(m) : m[e].key = k].value ELSE 0

\* tallyMap.set(k, v)
MapSet(m, k, v) ==
    IF MapHas(m, k)
    THEN [e \in 1..Len(m) |-> IF m[e].key = k THEN [key |-> k, value |-> v] ELSE m[e]]
    ELSE Append(m, [key |-> k, value |-> v])

\* results.find(r => r.timezone === timezone)?.geo
FindGeoLast(rs, timezone) ==
    rs[CHOOSE k \in 1..Len(rs) :
          /\ rs[k].timezone = timezone
          /\ \A j \in (k + 1)..Len(rs) : rs[j].timezone # timezone].geo

FindGeo(rs, timezone) ==
    rs[CHOOSE k \in 1..Len(rs) :
          /\ rs[k].timezone = timezone
          /\ \A j \in 1..(k - 1) : rs[j].timezone # timezone].geo

----
VARIABLES
    mode,           \* which entry point was called
    options,        \* its timeout options
    promises,       \* promises[i]: the promise of fetchFromService for service i
    abortTimer,     \* abortTimer[i]: the setTimeout of fetchFromService for service i
    timeoutPromise, \* the total-timeout timer of raceWithTimeout
    idx,            \* position of raceWithTimeout's for loop in promises
    results,        \* getTimezoneByConsensus: results
    tallyMap,       \* getTimezoneByConsensus: tallyMap
    completedCount, \* getTimezoneByConsensus: completedCount
    pc,             \* "running", "returned" or "thrown"
    ret,            \* the value the call returned, null before and on a throw
    error,          \* the message of the error the call threw, "" otherwise
    delivered,      \* history: services in the order raceWithTimeout yielded them
    settleOrder,    \* history: services in the order their promises settled
    deadlineAt,     \* history: Len(settleOrder) when the total timer fired, else -1
    exitPath,       \* history: how the call ended: "majority", "exhausted",
                    \*          "timeout" (loop broken by the total timer), "first"
    lastResponse,   \* history: what the fetch that settled last had received
    request,        \* the HTTP request served, or DirectCall
    httpResponse    \* the handler's HTTP response, null before it answers

vars == << services, mode, options, promises, abortTimer, timeoutPromise, idx, results,
           tallyMap, completedCount, pc, ret, error, delivered, settleOrder,
           deadlineAt, exitPath, lastResponse, request, httpResponse >>

----
\* The consumer side of a call, as one record, so that the loop can be
\* computed by a recursive operator.
Consumer ==
    [idx |-> idx, results |-> results, tallyMap |-> tallyMap,
     completedCount |-> completedCount, pc |-> pc, ret |-> ret,
     error |-> error, delivered |-> delivered, exitPath |-> exitPath]

\* await Promise.race([promise, timeoutPromise]) in raceWithTimeout: which of
\* the two decides the race.  A settled promise comes first in the array, so
\* its reaction runs before the one of an already rejected timeoutPromise.
raceWithTimeoutIgnoresTimer(promise, timer) ==
    IF promise.state = "fulfilled" THEN "promise" ELSE "pending"

raceWithTimeout(promise, timer) ==
    IF promise.state = "fulfilled" THEN "promise"
    ELSE IF timer = "rejected" THEN "timeout"
    ELSE "pending"

\* if (count + 1 >= majority)
MajorityReachedStrict(count1) == count1 > majority

MajorityReached(count1) == count1 >= majority

\* The object returned by the early exit (responseTime left out).
EarlyResultStaleCount(result, count, completed) ==
    [timezone |-> result.timezone, geo |-> result.geo,
     confidence |-> [num |-> count, den |-> N],
     sources |-> completed]

EarlyResultOverResponded(result, count, completed) ==
    [timezone |-> result.timezone, geo |-> result.geo,
     confidence |-> [num |-> count + 1, den |-> completed],
     sources |-> completed]

EarlyResultSourcesAreVotes(result, count, completed) ==
    [timezone |-> result.timezone, geo |-> result.geo,
     confidence |-> [num |-> count + 1, den |-> N],
     sources |-> count + 1]

EarlyResult(result, count, completed) ==
    [timezone |-> result.timezone, geo |-> result.geo,
     confidence |-> [num |-> count + 1, den |-> N],
     sources |-> completed]

\* The scan "for (const [timezone, count] of tallyMap.entries())": best is
\* [bestTimezone, maxCount, bestGeo], e the next entry.
RECURSIVE BestOfLastWins(_, _, _, _)
BestOfLastWins(m, rs, e, best) ==
    IF e > Len(m) THEN best
    ELSE IF m[e].value >= best.maxCount
         THEN BestOfLastWins(m, rs, e + 1,
                     [bestTimezone |-> m[e].key, maxCount |-> m[e].value,
                      bestGeo |-> FindGeo(rs, m[e].key)])
         ELSE BestOfLastWins(m, rs, e + 1, best)

RECURSIVE BestOf(_, _, _, _)
BestOf(m, rs, e, best) ==
    IF e > Len(m) THEN best
    ELSE IF m[e].value > best.maxCount
         THEN BestOf(m, rs, e + 1,
                     [bestTimezone |-> m[e].key, maxCount |-> m[e].value,
                      bestGeo |-> FindGeo(rs, m[e].key)])
         ELSE BestOf(m, rs, e + 1, best)

\* if (tallyMap.size > 0)
HasTallyAlways(m) == TRUE

HasTally(m) == Len(m) > 0

\* The code after the for-await loop: plurality result, or the throw.
Fallback(c0, why) ==
    LET c == [c0 EXCEPT !.exitPath = why] IN
    IF HasTally(c.tallyMap)
    THEN LET best == BestOf(c.tallyMap, c.results, 1,
                            [bestTimezone |-> "", maxCount |-> 0, bestGeo |-> 0])
         IN [c EXCEPT !.pc = "returned",
                      !.ret = [timezone |-> best.bestTimezone, geo |-> best.bestGeo,
                               confidence |-> [num |-> best.maxCount, den |-> N],
                               sources |-> c.completedCount]]
    ELSE [c EXCEPT !.pc = "thrown",
                   !.error = "All GeoIP services failed or timed out"]

\* The for-await loop of getTimezoneByConsensus over raceWithTimeout, run
\* from consumer state c until it suspends on a pending promise or the call
\* ends.  ps are the promises, timer the state of timeoutPromise.
RECURSIVE getTimezoneByConsensus(_, _, _)
getTimezoneByConsensus(c, ps, timer) ==
    IF c.pc # "running" THEN c
    ELSE IF c.idx > N THEN Fallback(c, "exhausted")
    ELSE LET winner == raceWithTimeout(ps[c.idx], timer) IN
         IF winner = "pending" THEN c
         ELSE IF winner = "timeout" THEN Fallback(c, "timeout")
         ELSE LET result == ps[c.idx].value
                  c1 == [c EXCEPT !.idx = @ + 1,
                                  !.delivered = Append(@, c.idx)]
              IN IF result = null THEN getTimezoneByConsensus(c1, ps, timer)
                 ELSE LET count == MapGet(c.tallyMap, result.timezone)
                          c2 == [c1 EXCEPT
                                   !.completedCount = @ + 1,
                                   !.results = Append(@, result),
                                   !.tallyMap = MapSet(@, result.timezone, count + 1)]
                      IN IF MajorityReached(count + 1)
                         THEN [c2 EXCEPT
                                 !.pc = "returned",
                                 !.exitPath = "majority",
                                 !.ret = EarlyResult(result, count, c2.completedCount)]
                         ELSE getTimezoneByConsensus(c2, ps, timer)

\* getTimezoneFirst: Promise.race over the wrapped promises is decided by the
\* first of them to settle; a wrapped promise rejects when its service
\* produced null.  i is the service whose promise has just settled.
getTimezoneFirst(c, ps, i) ==
    IF c.pc # "running" THEN c
    ELSE IF ps[i].value # null
         THEN [c EXCEPT !.pc = "returned",
                        !.exitPath = "first",
                        !.ret = [timezone |-> ps[i].value.timezone,
                                 geo |-> ps[i].value.geo,
                                 service |-> ps[i].value.service]]
         ELSE [c EXCEPT !.pc = "thrown", !.exitPath = "first",
                        !.error = "Service failed"]

\* The caller's reaction to promise i settling or to the total timer.
React(c, ps, timer, i) ==
    IF mode = "consensus" THEN getTimezoneByConsensus(c, ps, timer)
    ELSE IF i \in Services THEN getTimezoneFirst(c, ps, i)
    ELSE c

----
\* The /timezone handler of index.js.

\* searchParams.get() of a parameter that is not in the URL.
NoParam == "<null>"

\* The caller's address (cf-connecting-ip) and another address.
CallerIp == "198.51.100.7"

OtherIp == "203.0.113.9"

\* request.cf.timezone of the caller.
CfTimezone == "Asia/Tokyo"

\* The resolver was called directly, not through the handler.
DirectCall == [via |-> "direct"]

\* The /timezone requests: the ip and mode query parameters.
Requests ==
    { [via |-> "handler", queryIp |-> q, mode |-> m] :
          q \in { NoParam, "", CallerIp, OtherIp }, m \in { NoParam, "first" } }

\* if (!queryIp || queryIp === ip)
UsesCloudflareUnlessGiven(req) == req.queryIp = NoParam \/ req.queryIp = ""

UsesCloudflare(req) ==
    req.queryIp = NoParam \/ req.queryIp = "" \/ req.queryIp = CallerIp

\* const mode = searchParams.get('mode') || 'consensus', and the choice
\* mode === 'first' ? getTimezoneFirst : getTimezoneByConsensus
HandlerMode(req) ==
    IF req.mode = "first" THEN "first" ELSE "consensus"

\* The response for the caller's own address (no resolver call).
CloudflareResponse ==
    [status |-> 200, timezone |-> CfTimezone,
     confidence |-> [num |-> 1, den |-> 1], sources |-> "cloudflare"]

\* The response once the resolver call c has ended: the catch block answers
\* 500; otherwise confidence = result.confidence || 1.0 and
\* sources = result.sources || result.service.
ResolverResponse(c) ==
    IF c.pc = "thrown"
    THEN [status |-> 500,
          error |-> "Failed to determine timezone for the given IP",
          message |-> c.error]
    ELSE [status |-> 200, timezone |-> c.ret.timezone,
          confidence |-> IF mode = "consensus" THEN c.ret.confidence
                         ELSE [num |-> 1, den |-> 1],
          sources |-> IF mode = "consensus" THEN c.ret.sources ELSE c.ret.service]

Install(c) ==
    /\ httpResponse' = IF request.via = "handler" /\ pc = "running" /\ c.pc # "running"
                       THEN ResolverResponse(c) ELSE httpResponse
    /\ idx' = c.idx
    /\ results' = c.results
    /\ tallyMap' = c.tallyMap
    /\ completedCount' = c.completedCount
    /\ pc' = c.pc
    /\ ret' = c.ret
    /\ error' = c.error
    /\ delivered' = c.delivered
    /\ exitPath' = c.exitPath

----
\* The state when the call first suspends: every fetch is in flight, every
\* timer is armed, the loop waits for the first promise.
Started ==
    /\ promises = [i \in Services |-> [state |-> "pending", value |-> null]]
    /\ abortTimer = [i \in Services |-> "armed"]
    /\ timeoutPromise = IF mode = "consensus" THEN "pending" ELSE "none"
    /\ idx = 1
    /\ results = << >>
    /\ tallyMap = << >>
    /\ completedCount = 0
    /\ pc = "running"
    /\ ret = null
    /\ error = ""
    /\ delivered = << >>
    /\ settleOrder = << >>
    /\ deadlineAt = -1
    /\ exitPath = ""
    /\ lastResponse = [kind |-> "none", timezone |-> ""]
    /\ httpResponse = null

\* A direct call of getTimezoneByConsensus or getTimezoneFirst.
Init ==
    /\ services = GEOIP_SERVICES
    /\ request = DirectCall
    /\ mode \in Modes
    /\ options \in (IF mode = "consensus" THEN ConsensusOptions ELSE FirstOptions)
    /\ Started

\* The same, in a process whose registry has another size.
InitAnyRegistry ==
    /\ services \in Registries
    /\ request = DirectCall
    /\ mode \in Modes
    /\ options \in (IF mode = "consensus" THEN ConsensusOptions ELSE FirstOptions)
    /\ Started

\* The handler answered from Cloudflare's metadata: no resolver call, no
\* fetch, no timer.
AnsweredLocally ==
    /\ mode = "cloudflare"
    /\ options = [timeout |-> 0, totalTimeout |-> 0]
    /\ promises = [i \in Services |-> [state |-> "unstarted", value |-> null]]
    /\ abortTimer = [i \in Services |-> "unset"]
    /\ timeoutPromise = "none"
    /\ idx = 1
    /\ results = << >>
    /\ tallyMap = << >>
    /\ completedCount = 0
    /\ pc = "idle"
    /\ ret = null
    /\ error = ""
    /\ delivered = << >>
    /\ settleOrder = << >>
    /\ deadlineAt = -1
    /\ exitPath = ""
    /\ lastResponse = [kind |-> "none", timezone |-> ""]
    /\ httpResponse = CloudflareResponse

\* A /timezone request: answered locally, or by a resolver call with the
\* default options.
InitHandler ==
    /\ services = GEOIP_SERVICES
    /\ request \in Requests
    /\ IF UsesCloudflare(request)
       THEN AnsweredLocally
       ELSE /\ mode = HandlerMode(request)
            /\ options = IF mode = "consensus"
                         THEN [timeout |-> DefaultTimeout,
                               totalTimeout |-> DefaultTotalTimeout]
                         ELSE [timeout |-> DefaultTimeout, totalTimeout |-> 0]
            /\ Started

\* Promise i settles with value v (fetchFromService never rejects).
Settle(i, v, timerState, response) ==
    LET ps == [promises EXCEPT ![i] = [state |-> "fulfilled", value |-> v]] IN
    /\ promises' = ps
    /\ abortTimer' = [abortTimer EXCEPT ![i] = timerState]
    /\ settleOrder' = Append(settleOrder, i)
    /\ lastResponse' = response
    /\ Install(React(Consumer, ps, timeoutPromise, i))
    /\ UNCHANGED << services, mode, options, timeoutPromise, deadlineAt, request >>

\* The fetch of service i completes (response, error status, network error,
\* unparsable body) before its abort timer; finally clears the timer.
FetchCompletes(i, response) ==
    /\ promises[i].state = "pending"
    /\ abortTimer[i] = "armed"
    /\ Settle(i, fetchFromService(i, response), "cleared", response)

\* setTimeout(() => controller.abort(), timeout) of service i fires: fetch
\* rejects, the catch returns null.  The abort timers were all set in the
\* same synchronous block, before the total timer: they fire in registration
\* order, and before the total timer unless timeout > totalTimeout.
AbortFires(i) ==
    /\ promises[i].state = "pending"
    /\ abortTimer[i] = "armed"
    /\ \A j \in 1..(i - 1) : abortTimer[j] # "armed"
    /\ timeoutPromise = "pending" => options.timeout <= options.totalTimeout
    /\ Settle(i, null, "fired", [kind |-> "abort", timezone |-> ""])

\* setTimeout(() => reject(new Error('Total timeout')), totalTimeout) fires.
TotalTimeoutFires ==
    /\ timeoutPromise = "pending"
    /\ options.timeout <= options.totalTimeout
           => \A i \in Services : abortTimer[i] # "armed"
    /\ timeoutPromise' = "rejected"
    /\ deadlineAt' = Len(settleOrder)
    /\ Install(React(Consumer, promises, "rejected", 0))
    /\ UNCHANGED << services, mode, options, promises, abortTimer, settleOrder,
                    lastResponse, request >>

Next ==
    \/ \E i \in Services, response \in Responses : FetchCompletes(i, response)
    \/ \E i \in Services : AbortFires(i)
    \/ TotalTimeoutFires

Spec == Init /\ [][Next]_vars

SpecAnyRegistry == InitAnyRegistry /\ [][Next]_vars

SpecHandler == InitHandler /\ [][Next]_vars

----
\* Vocabulary of the properties.

Range(q) == { q[k] : k \in 1..Len(q) }

\* Position of service i in sequence q (i occurs in q).
Pos(q, i) == CHOOSE k \in 1..Len(q) : q[k] = i

Pending(i) == promises[i].state = "pending"

\* Service i has produced an Observed outcome.
Observed(i) == promises[i].state = "fulfilled" /\ promises[i].value # null

\* Service i has produced an Observed outcome carrying tz.
ObservedTz(i, tz) == Observed(i) /\ promises[i].value.timezone = tz

\* The services whose outcome arrived before the total deadline (all that
\* have settled, as long as the deadline has not fired).
SettledInTime ==
    { settleOrder[k] : k \in 1..(IF deadlineAt = -1 THEN Len(settleOrder) ELSE deadlineAt) }

\* Number of services that returned tz before the total deadline.
VotesInTime(tz) == Cardinality({ i \in SettledInTime : ObservedTz(i, tz) })

\* Number of outcomes carrying tz that the tally loop has consumed.
VotesConsumed(tz) == Cardinality({ i \in Range(delivered) : ObservedTz(i, tz) })

\* The outcome that settled first among the Observed ones.
EarliestObserved ==
    promises[settleOrder[CHOOSE k \in 1..Len(settleOrder) :
                /\ Observed(settleOrder[k])
                /\ \A j \in 1..(k - 1) : ~Observed(settleOrder[j])]].value

----
\* C1: in consensus mode, whenever at least ceil(N/2) providers returned the
\* same identifier (before the total deadline), the finished call has
\* returned that identifier with confidence >= 0.5.
C1_MajorityIsReturned ==
    (mode = "consensus" /\ pc # "running") =>
        \A tz \in Timezones :
            VotesInTime(tz) >= majority =>
                /\ pc = "returned"
                /\ ret.timezone = tz
                /\ 2 * ret.confidence.num >= ret.confidence.den

\* C2: in consensus mode, as soon as the ceil(N/2)-th provider agreeing on an
\* identifier has completed, the call has returned that identifier, whatever
\* providers are still pending.
C2_MajorityReturnsAtOnce ==
    mode = "consensus" =>
        \A tz \in Timezones :
            VotesInTime(tz) >= majority => (pc = "returned" /\ ret.timezone = tz)

\* C3: outcomes are delivered to the tally loop in completion order: a
\* provider that completed before a delivered one was delivered before it;
\* and no provider's outcome is delivered twice.
C3_DeliveredInCompletionOrder ==
    mode = "consensus" =>
        /\ \A k \in 1..Len(delivered) : \A j \in Range(settleOrder) :
               Pos(settleOrder, j) < Pos(settleOrder, delivered[k])
                   => \E k2 \in 1..(k - 1) : delivered[k2] = j
        /\ \A k1, k2 \in 1..Len(delivered) :
               delivered[k1] = delivered[k2] => k1 = k2

\* C4: a call fails only when every provider is Absent: when some provider
\* produced an Observed outcome within its own timeout and before the total
\* deadline, the call has not thrown.
C4_FailsOnlyWhenAllAbsent ==
    pc = "thrown" => \A i \in SettledInTime : ~Observed(i)

\* C5: first-success mode returns the timezone, geo and provider name of the
\* earliest-completing Observed outcome, also when Absent outcomes came
\* earlier.
C5_FirstReturnsEarliestObserved ==
    (mode = "first" /\ \E i \in Services : Observed(i)) =>
        /\ pc = "returned"
        /\ ret = [timezone |-> EarliestObserved.timezone,
                  geo |-> EarliestObserved.geo,
                  service |-> EarliestObserved.service]

\* C6: when all N providers are Absent the call has thrown and returned
\* nothing, in both modes; in consensus mode also when the total deadline
\* elapsed before any Observed outcome was consumed.
C6_AllAbsentFails ==
    /\ (\A i \in Services : ~Pending(i) /\ ~Observed(i))
           => (pc = "thrown" /\ ret = null /\ error # "")
    /\ (mode = "consensus" /\ timeoutPromise = "rejected" /\ results = << >>)
           => (pc = "thrown" /\ ret = null /\ error # "")

C6_Witness ==
    /\ mode = "consensus"
    /\ \A i \in Services : ~Pending(i) /\ ~Observed(i)
    /\ \E i \in Services : abortTimer[i] = "fired"
    /\ \E i \in Services : abortTimer[i] = "cleared"
    /\ pc = "thrown"

\* C7: when the total deadline breaks the loop before a majority, the result
\* is the plurality winner among exactly the outcomes of the providers that
\* completed before the deadline (a failure when none of them is Observed).
C7_DeadlineResultIsPluralityOfCompleted ==
    (mode = "consensus" /\ exitPath = "timeout") =>
        IF \A i \in SettledInTime : ~Observed(i)
        THEN pc = "thrown"
        ELSE /\ pc = "returned"
             /\ \A tz \in Timezones : VotesInTime(tz) <= VotesInTime(ret.timezone)
             /\ ret.confidence = [num |-> VotesInTime(ret.timezone), den |-> N]

\* C8 (as claimed): without total timeout, once every provider has answered,
\* the confidence is the number of providers whose Observed identifier is
\* the returned one, divided by N.
C8_ConfidenceCountsAllAgreeing ==
    (/\ mode = "consensus"
     /\ pc = "returned"
     /\ exitPath # "timeout"
     /\ \A i \in Services : ~Pending(i)) =>
        ret.confidence =
            [num |-> Cardinality({ i \in Services : ObservedTz(i, ret.timezone) }),
             den |-> N]

\* C8 (amended): the confidence is the number of outcomes carrying the
\* returned identifier that the loop had consumed when it decided, divided
\* by N; the count stops at ceil(N/2), so without total timeout it is
\* ceil(N/2) / N when all N providers agree.
C8_ConfidenceCountsConsumedVotes ==
    (mode = "consensus" /\ pc = "returned") =>
        /\ ret.confidence = [num |-> VotesConsumed(ret.timezone), den |-> N]
        /\ ret.confidence.num <= majority
        /\ (exitPath # "timeout" /\ \A i \in Services : ObservedTz(i, ret.timezone))
               => ret.confidence.num = majority

C8_Witness ==
    /\ mode = "consensus"
    /\ pc = "returned"
    /\ \A i \in Services : ObservedTz(i, ret.timezone)
    /\ ret.confidence = [num |-> majority, den |-> N]

\* C9: every consensus result has 0 < confidence <= 1, and the divisor is N,
\* the number of registered providers, not the number that responded.
C9_ConfidenceInRange ==
    (mode = "consensus" /\ pc = "returned") =>
        /\ ret.confidence.den = N
        /\ 0 < ret.confidence.num
        /\ ret.confidence.num <= ret.confidence.den

C9_Witness ==
    /\ mode = "consensus"
    /\ pc = "returned"
    /\ exitPath = "majority"
    /\ ret.sources < N
    /\ ret.confidence.den = N

\* C10: a consensus call is over once the total deadline has fired, however
\* many providers are still pending and also with timeout > totalTimeout.
C10_DeadlineEndsCall ==
    (mode = "consensus" /\ timeoutPromise = "rejected") => pc # "running"

C10_Witness ==
    /\ mode = "consensus"
    /\ options.timeout > options.totalTimeout
    /\ timeoutPromise = "rejected"
    /\ exitPath = "timeout"
    /\ Cardinality({ i \in Services : Pending(i) }) >= 2
    /\ pc # "running"

----
\* Vocabulary of the properties of the tally.

\* Position in delivered of the first consumed outcome carrying tz.
FirstVote(tz) ==
    CHOOSE k \in 1..Len(delivered) :
        /\ ObservedTz(delivered[k], tz)
        /\ \A j \in 1..(k - 1) : ~ObservedTz(delivered[j], tz)

\* Sum of the counts of tally map m from entry e on.
RECURSIVE SumFrom(_, _)
SumFrom(m, e) == IF e > Len(m) THEN 0 ELSE m[e].value + SumFrom(m, e + 1)

TallySum == SumFrom(tallyMap, 1)

\* The call returned from the code after the loop (plurality fallback).
PluralityReturn ==
    mode = "consensus" /\ pc = "returned" /\ exitPath \in { "exhausted", "timeout" }

----
\* C11: fetchFromService never raises: its promise is pending or fulfilled;
\* it fulfils with null for a network error, a non-OK status, an unparsable
\* body, an empty timezone and the abort, and with {timezone, geo, service}
\* otherwise; it settles once per call and its abort timer is no longer
\* armed once it has settled.
C11_FetchNeverRaises ==
    /\ \A i \in Services :
           /\ promises[i].state \in { "pending", "fulfilled" }
           /\ promises[i].state = "fulfilled" <=> abortTimer[i] # "armed"
           /\ Cardinality({ k \in 1..Len(settleOrder) : settleOrder[k] = i })
                  = IF Pending(i) THEN 0 ELSE 1
    /\ Len(settleOrder) > 0 =>
           LET i == settleOrder[Len(settleOrder)] IN
           promises[i].value =
               IF \/ lastResponse.kind \in { "network_error", "http_error",
                                            "bad_json", "abort" }
                  \/ lastResponse.timezone = ""
               THEN null
               ELSE [timezone |-> lastResponse.timezone, geo |-> i,
                     service |-> GEOIP_SERVICES[i]]

C11_Witness ==
    /\ lastResponse = [kind |-> "ok", timezone |-> ""]
    /\ promises[settleOrder[Len(settleOrder)]].value = null
    /\ \E i \in Services : abortTimer[i] = "fired"
    /\ \E i \in Services : Observed(i)

\* C12: in the plurality fallback the returned identifier has the highest
\* count, and among identifiers sharing it the one whose first vote was
\* consumed first; with two identifiers at 2 votes each among 5 providers the
\* result is one of them with confidence 2/5.
C12_PluralityTieBreak ==
    PluralityReturn =>
        /\ \A tz \in Timezones \ { ret.timezone } :
               \/ VotesConsumed(tz) < VotesConsumed(ret.timezone)
               \/ /\ VotesConsumed(tz) = VotesConsumed(ret.timezone)
                  /\ FirstVote(ret.timezone) < FirstVote(tz)
        /\ ret.confidence = [num |-> VotesConsumed(ret.timezone), den |-> N]
        /\ \A a, b \in Timezones :
               (a # b /\ VotesConsumed(a) = 2 /\ VotesConsumed(b) = 2)
                   => (ret.timezone \in { a, b } /\ ret.confidence = [num |-> 2, den |-> 5])

C12_Witness ==
    /\ PluralityReturn
    /\ exitPath = "exhausted"
    /\ \E tz \in Timezones \ { ret.timezone } :
           /\ VotesConsumed(tz) = 2
           /\ VotesConsumed(ret.timezone) = 2
    /\ ret.confidence = [num |-> 2, den |-> 5]

\* C13 (as claimed): the geo returned by consensus mode is the geo of the
\* first-consumed Observed outcome carrying the returned identifier, on the
\* early-majority path and on the plurality path.
C13_GeoIsFirstSeen ==
    (mode = "consensus" /\ pc = "returned") =>
        ret.geo = promises[delivered[FirstVote(ret.timezone)]].value.geo

\* C13 (amended): on the plurality path the geo is the one of the
\* first-consumed outcome carrying the returned identifier; on the
\* early-majority path it is the geo of the outcome whose vote reached the
\* majority, the last one consumed.
C13_GeoByPath ==
    (mode = "consensus" /\ pc = "returned") =>
        IF exitPath = "majority"
        THEN /\ ObservedTz(delivered[Len(delivered)], ret.timezone)
             /\ ret.geo = promises[delivered[Len(delivered)]].value.geo
        ELSE ret.geo = promises[delivered[FirstVote(ret.timezone)]].value.geo

C13_Witness ==
    /\ mode = "consensus"
    /\ pc = "returned"
    /\ exitPath = "majority"
    /\ ret.geo = promises[delivered[Len(delivered)]].value.geo
    /\ ret.geo # promises[delivered[FirstVote(ret.timezone)]].value.geo

\* C14 (as claimed): the sources of a consensus result is the number of
\* outcomes, Observed or Absent, consumed before the decision.
C14_SourcesCountsAllConsumed ==
    (mode = "consensus" /\ pc = "returned") => ret.sources = Len(delivered)

\* C14 (amended): an Absent outcome contributes no vote and is not counted:
\* the sources of a consensus result is the number of Observed outcomes
\* consumed before the decision.
C14_SourcesCountsObserved ==
    /\ mode = "consensus" =>
           /\ completedCount = Cardinality({ i \in Range(delivered) : Observed(i) })
           /\ TallySum = completedCount
    /\ (mode = "consensus" /\ pc = "returned") => ret.sources = completedCount

C14_Witness ==
    /\ mode = "consensus"
    /\ pc = "returned"
    /\ \E i \in Range(delivered) : ~Observed(i)
    /\ \E i \in Range(delivered) : Observed(i) /\ ~ObservedTz(i, ret.timezone)
    /\ ret.sources < Len(delivered)

\* C15: each provider contributes at most one vote: the sum of the tally
\* counts is at most the number of outcomes consumed, which is at most N, and
\* no count ever decreases.
C15_OneVotePerProvider ==
    /\ [](TallySum <= Len(delivered) /\ Len(delivered) <= N)
    /\ [][\A tz \in Timezones : MapGet(tallyMap', tz) >= MapGet(tallyMap, tz)]_vars

C15_Witness ==
    /\ mode = "consensus"
    /\ TallySum = N
    /\ Len(delivered) = N

C17_NoPendingAfterReturn ==
    (mode = "consensus" /\ (timeoutPromise = "rejected" \/ pc # "running")) =>
        \A i \in Services : ~Pending(i)

\* C18: the /timezone handler starts provider fetches only for an ip
\* parameter that is present and differs from the caller's address; without
\* one, or with the caller's own, no fetch and no timer is started and the
\* answer has confidence 1.0 and sources 'cloudflare'; when the resolver
\* throws, the answer is a 500 with an error body and no timezone.
C18_HandlerFetchesOnlyForOtherIp ==
    /\ (\E i \in Services : promises[i].state # "unstarted")
           => (request.queryIp # NoParam /\ request.queryIp # CallerIp)
    /\ (request.queryIp = NoParam \/ request.queryIp = CallerIp) =>
           /\ \A i \in Services :
                  promises[i].state = "unstarted" /\ abortTimer[i] = "unset"
           /\ httpResponse # null
           /\ httpResponse.status = 200
           /\ httpResponse.confidence = [num |-> 1, den |-> 1]
           /\ httpResponse.sources = "cloudflare"
    /\ pc = "thrown" =>
           /\ httpResponse # null
           /\ httpResponse.status = 500
           /\ httpResponse.error # ""
           /\ httpResponse.message = error
           /\ "timezone" \notin DOMAIN httpResponse
    /\ (httpResponse # null /\ httpResponse.status = 500) => pc = "thrown"

C18_Witness ==
    /\ request.queryIp = OtherIp
    /\ pc = "thrown"
    /\ httpResponse # null
    /\ httpResponse.status = 500
    /\ \E i \in Services : promises[i].state = "fulfilled"

\* C19: the winning count of a consensus result never exceeds ceil(N/2): the
\* early exit fires exactly when a count equals ceil(N/2), so with the 5
\* registered providers the confidence is 1/5, 2/5 or 3/5, and sources is at
\* most N.
C19_WinningCountCapped ==
    (mode = "consensus" /\ pc = "returned") =>
        /\ ret.confidence.num <= majority
        /\ exitPath = "majority" <=> ret.confidence.num = majority
        /\ ret.confidence \in { [num |-> k, den |-> 5] : k \in 1..3 }
        /\ ret.sources <= N

C19_Witness ==
    /\ mode = "consensus"
    /\ pc = "returned"
    /\ Cardinality({ i \in Services : ObservedTz(i, ret.timezone) }) = 4
    /\ ret.confidence = [num |-> 3, den |-> 5]

====
